---- MODULE Spec2Model ----
(***************************************************************************)
(* Model of the GitHub Raw proxy worker (src/src/index.ts): the content    *)
(* replacement engine (rule parsing, rule matching, remote value           *)
(* resolution with the shared apiCache, placeholder substitution) and the  *)
(* request handler that drives it.                                         *)
(*                                                                         *)
(* Text (paths, file contents, placeholder names, values) is a sequence of *)
(* one-character strings, so that startsWith/endsWith, the regular         *)
(* expressions and the match offsets are computed as the code computes     *)
(* them.                                                                   *)
(***************************************************************************)
EXTENDS Integers, Sequences, FiniteSets, TLC

(***************************************************************************)
(* String primitives of the JavaScript runtime used by the code.           *)
(***************************************************************************)
StartsWithAt(s, i, p) ==
    /\ i + Len(p) - 1 <= Len(s)
    /\ SubSeq(s, i, i + Len(p) - 1) = p

startsWith(s, p) == StartsWithAt(s, 1, p)

endsWith(s, p) ==
    /\ Len(p) <= Len(s)
    /\ SubSeq(s, Len(s) - Len(p) + 1, Len(s)) = p

\* position of the first c at or after from, 0 when there is none
IndexOfChar(s, c, from) ==
    IF \E j \in from..Len(s) : s[j] = c
    THEN CHOOSE j \in from..Len(s) :
            s[j] = c /\ \A k \in from..(j - 1) : s[k] # c
    ELSE 0

WhiteSpace == {" "}

RECURSIVE trimStart(_)
trimStart(s) ==
    IF s # <<>> /\ Head(s) \in WhiteSpace THEN trimStart(Tail(s)) ELSE s

RECURSIVE trimEnd(_)
trimEnd(s) ==
    IF s # <<>> /\ s[Len(s)] \in WhiteSpace
    THEN trimEnd(SubSeq(s, 1, Len(s) - 1))
    ELSE s

trim(s) == trimEnd(trimStart(s))

\* path.split('.'): the pieces between the separators, empty pieces kept
RECURSIVE split(_, _)
split(s, sep) ==
    LET j == IndexOfChar(s, sep, 1) IN
    IF j = 0 THEN <<s>>
    ELSE <<SubSeq(s, 1, j - 1)>> \o split(SubSeq(s, j + 1, Len(s)), sep)

DigitChars == <<"0", "1", "2", "3", "4", "5", "6", "7", "8", "9">>

DigitSet == {DigitChars[i] : i \in 1..Len(DigitChars)}

\* /^\d+$/.test(key)
IsDigits(s) == s # <<>> /\ \A i \in 1..Len(s) : s[i] \in DigitSet

DigitValue(c) == (CHOOSE i \in 1..Len(DigitChars) : DigitChars[i] = c) - 1

\* parseInt(key, 10) of a string of digits
RECURSIVE parseInt(_)
parseInt(s) ==
    IF s = <<>> THEN 0
    ELSE Len(DigitChars) * parseInt(SubSeq(s, 1, Len(s) - 1)) + DigitValue(s[Len(s)])

\* String(n) of a non-negative integer
RECURSIVE NumToStr(_)
NumToStr(n) ==
    IF n < Len(DigitChars) THEN <<DigitChars[n + 1]>>
    ELSE NumToStr(n \div Len(DigitChars)) \o <<DigitChars[(n % Len(DigitChars)) + 1]>>

(***************************************************************************)
(* JSON values.  Every value is a record of the same shape; the members of *)
(* an object and the elements of an array are both kept in kids, keyed by  *)
(* the property name (for an array: the index written in decimal).         *)
(***************************************************************************)
JStr(s) == [t |-> "str", s |-> s, n |-> 0, kids |-> <<>>]
JNum(n) == [t |-> "num", s |-> <<>>, n |-> n, kids |-> <<>>]
JObj(kids) == [t |-> "obj", s |-> <<>>, n |-> 0, kids |-> kids]
JArr(kids) == [t |-> "arr", s |-> <<>>, n |-> 0, kids |-> kids]
JNull == [t |-> "null", s |-> <<>>, n |-> 0, kids |-> <<>>]
JUndefined == [t |-> "undefined", s |-> <<>>, n |-> 0, kids |-> <<>>]
\* a function object inherited from Object.prototype; s is its name
JFunction(name) == [t |-> "function", s |-> name, n |-> 0, kids |-> <<>>]

\* Names every plain object inherits from Object.prototype.  The model's
\* texts use valueOf only.
ObjectPrototypeKeys == {<<"v", "a", "l", "u", "e", "O", "f">>}

\* The JavaScript text of an inherited built-in function, kept as one symbol.
FunctionText(name) == <<"function(){[native code]}">>

\* Truthiness of a parsed JSON value: if (apiData)
Truthy(v) ==
    CASE v.t = "null" -> FALSE
      [] v.t = "undefined" -> FALSE
      [] v.t = "num" -> v.n # 0
      [] v.t = "str" -> v.s # <<>>
      [] OTHER -> TRUE

\* String(value)
String(v) ==
    CASE v.t = "str" -> v.s
      [] v.t = "num" -> NumToStr(v.n)
      [] v.t = "null" -> <<"n", "u", "l", "l">>
      [] v.t = "undefined" -> <<"u", "n", "d", "e", "f", "i", "n", "e", "d">>
      [] v.t = "function" -> FunctionText(v.s)
      [] v.t = "arr" -> <<"[array]">>
      [] OTHER -> <<"[object Object]">>

\* current[key], key already converted to a property name
GetProperty(current, key) ==
    CASE current.t \in {"obj", "arr"} ->
            IF key \in DOMAIN current.kids THEN current.kids[key]
            ELSE IF current.t = "obj" /\ key \in ObjectPrototypeKeys
                 THEN JFunction(key)
                 ELSE JUndefined
      [] current.t = "str" ->
            IF IsDigits(key) /\ parseInt(key) < Len(current.s)
            THEN JStr(<<current.s[parseInt(key) + 1]>>)
            ELSE JUndefined
      [] OTHER -> JUndefined

RECURSIVE WalkKeys(_, _)
WalkKeys(current, keys) ==
    IF keys = <<>> THEN current
    ELSE IF current.t \in {"null", "undefined"} THEN JUndefined
    ELSE IF IsDigits(Head(keys))
         THEN WalkKeys(GetProperty(current, NumToStr(parseInt(Head(keys)))), Tail(keys))
         ELSE WalkKeys(GetProperty(current, Head(keys)), Tail(keys))

getValueByPath(obj, path) == WalkKeys(obj, split(path, "."))

(***************************************************************************)
(* Regular expressions.  Every expression the model uses has the shape     *)
(*     open  [^stop]+  close                                               *)
(* where close begins with the character stop; group says whether the      *)
(* [^stop]+ part is a capturing group.                                     *)
(***************************************************************************)
\* /\$\{env:([^}]+)\}/g
EnvRegex ==
    [open |-> <<"$", "{", "e", "n", "v", ":">>, stop |-> "}",
     close |-> <<"}">>, group |-> TRUE]

\* /\{\{([^}]+)\}\}/g
TemplateRegex ==
    [open |-> <<"{", "{">>, stop |-> "}", close |-> <<"}", "}">>, group |-> TRUE]

\* the pattern of the repository's regex-mode test: $[NAME]
BracketPattern == "\\$\\[([^\\]]+)\\]"

\* a pattern without a capturing group: @NAME@
AtPattern == "@[^@]+@"

\* a pattern that is no regular expression
BadPattern == "("

\* new RegExp(pattern, 'g'): the compiled expression, or a SyntaxError
RegExpCompile(pattern) ==
    CASE pattern = BracketPattern ->
            [ok |-> TRUE,
             rx |-> [open |-> <<"$", "[">>, stop |-> "]", close |-> <<"]">>,
                     group |-> TRUE]]
      [] pattern = AtPattern ->
            [ok |-> TRUE,
             rx |-> [open |-> <<"@">>, stop |-> "@", close |-> <<"@">>,
                     group |-> FALSE]]
      [] OTHER -> [ok |-> FALSE, rx |-> EnvRegex]

\* The match of rx that starts at position i of s: last is its last position
\* (0 when there is no match at i), cap the text matched by [^stop]+.
MatchAt(rx, s, i) ==
    LET b == i + Len(rx.open)
        j == IndexOfChar(s, rx.stop, b)
    IN IF StartsWithAt(s, i, rx.open) /\ j > b /\ StartsWithAt(s, j, rx.close)
       THEN [last |-> j + Len(rx.close) - 1, cap |-> SubSeq(s, b, j - 1)]
       ELSE [last |-> 0, cap |-> <<>>]

(***************************************************************************)
(* The replacements object of applyReplaceRule: own properties as a        *)
(* function from names to texts.                                           *)
(***************************************************************************)
\* varName in replacements: own or inherited property
HasProperty(replacements, varName) ==
    varName \in DOMAIN replacements \/ varName \in ObjectPrototypeKeys

\* the text String.prototype.replace makes of replacements[varName]
PropertyText(replacements, varName) ==
    IF varName \in DOMAIN replacements THEN replacements[varName]
    ELSE FunctionText(varName)

\* The body shared by the three replace callbacks: the replacement text of
\* one match, or the throw of the error strategy.
ReplaceCallback(match, varName, replacements, errorStrategy) ==
    IF HasProperty(replacements, varName)
    THEN [thrown |-> FALSE, text |-> PropertyText(replacements, varName)]
    ELSE CASE errorStrategy = "remove" -> [thrown |-> FALSE, text |-> <<>>]
           [] errorStrategy = "error" -> [thrown |-> TRUE, text |-> <<>>]
           [] OTHER -> [thrown |-> FALSE, text |-> match]

\* The variable name each mode's callback looks up.  offset counts from 0.
\* regex mode: groups = [...captures, offset, string], so without a
\* capturing group groups[0] is the offset.
CallbackVarName(mode, rx, match, cap, offset) ==
    CASE mode = "env" -> cap
      [] mode = "template" -> trim(cap)
      [] OTHER ->
            IF rx.group
            THEN (IF cap # <<>> THEN cap ELSE match)
            ELSE (IF offset # 0 THEN NumToStr(offset) ELSE match)

\* content.replace(regex, callback) with a global regex, from position i on:
\* leftmost matches, not overlapping, the text between them copied.
RECURSIVE ReplaceFrom(_, _, _, _, _, _)
ReplaceFrom(content, i, mode, rx, replacements, errorStrategy) ==
    IF i > Len(content) THEN [thrown |-> FALSE, out |-> <<>>]
    ELSE
      LET m == MatchAt(rx, content, i) IN
      IF m.last = 0
      THEN LET rest == ReplaceFrom(content, i + 1, mode, rx, replacements, errorStrategy)
           IN  IF rest.thrown THEN rest
               ELSE [thrown |-> FALSE, out |-> <<content[i]>> \o rest.out]
      ELSE LET match == SubSeq(content, i, m.last)
               cb == ReplaceCallback(match,
                        CallbackVarName(mode, rx, match, m.cap, i - 1),
                        replacements, errorStrategy)
           IN  IF cb.thrown THEN [thrown |-> TRUE, out |-> <<>>]
               ELSE LET rest == ReplaceFrom(content, m.last + 1, mode, rx,
                                            replacements, errorStrategy)
                    IN  IF rest.thrown THEN rest
                        ELSE [thrown |-> FALSE, out |-> cb.text \o rest.out]


(***************************************************************************)
(* Rules.  An element of the REPLACE_CONFIG array is a JSON object or      *)
(* null; has is the set of the fields the object carries (a field outside  *)
(* has reads as undefined).  Objects (files, api, mappings, static) are    *)
(* sequences of their entries in property order.                           *)
(***************************************************************************)
BlankRule ==
    [kind |-> "object", has |-> {}, files |-> <<>>, mode |-> "", pattern |-> "",
     api |-> <<>>, mappings |-> <<>>, static |-> <<>>, onError |-> "", cache |-> 0]

NullElement == [BlankRule EXCEPT !.kind = "null"]

\* rule.api?.url, "" when api or url is missing
ApiUrl(rule) ==
    IF "api" \in rule.has /\ \E i \in 1..Len(rule.api) : rule.api[i][1] = "url"
    THEN rule.api[CHOOSE i \in 1..Len(rule.api) : rule.api[i][1] = "url"][2]
    ELSE ""

\* JSON.stringify(rule.api): the entries in property order; two descriptors
\* get the same key exactly when they list the same entries in the same order
cacheKey(rule) == rule.api

\* rule.onError || 'keep'
ErrorStrategy(rule) ==
    IF "onError" \in rule.has /\ rule.onError # "" THEN rule.onError ELSE "keep"

\* (rule.cache || 0) * 1000
MsPerSecond == 1000

cacheTTL(rule) == (IF "cache" \in rule.has THEN rule.cache ELSE 0) * MsPerSecond

(***************************************************************************)
(* parseReplaceConfig.  REPLACE_CONFIG is undefined, or a string: empty,   *)
(* not JSON, JSON of a value that is no array (value holds what the text   *)
(* lists), or JSON of an array (value holds its elements).                 *)
(***************************************************************************)
\* parseReplaceConfig without the Array.isArray test
parseReplaceConfigAnyJson(configStr) ==
    IF configStr.kind \in {"undefined", "empty"} THEN <<>>
    ELSE IF configStr.kind = "notjson" THEN <<>>
    ELSE configStr.value

parseReplaceConfig(configStr) ==
    IF configStr.kind \in {"undefined", "empty"} THEN <<>>
    ELSE IF configStr.kind = "notjson" THEN <<>>
    ELSE IF configStr.kind = "array" THEN configStr.value
    ELSE <<>>

(***************************************************************************)
(* findMatchingRule: the index of the first rule one of whose files equals *)
(* the normalized path or is a suffix of it; 0 for null.  rule.files.some  *)
(* throws a TypeError on an element that is null or has no files.          *)
(***************************************************************************)
Normalize(p) == IF startsWith(p, <<"/">>) THEN p ELSE <<"/">> \o p

FileMatches(normalizedPath, file) ==
    LET normalizedFile == Normalize(file) IN
    normalizedPath = normalizedFile \/ endsWith(normalizedPath, normalizedFile)

RuleMatches(normalizedPath, rule) ==
    \E k \in 1..Len(rule.files) : FileMatches(normalizedPath, rule.files[k])

\* the loop of findMatchingRule without its early return: the last match wins
RECURSIVE FindLastFrom(_, _, _)
FindLastFrom(normalizedPath, rules, i) ==
    IF i > Len(rules) THEN [thrown |-> FALSE, index |-> 0]
    ELSE IF rules[i].kind = "null" \/ "files" \notin rules[i].has
         THEN [thrown |-> TRUE, index |-> 0]
    ELSE LET later == FindLastFrom(normalizedPath, rules, i + 1) IN
         IF later.thrown \/ later.index # 0 THEN later
         ELSE IF RuleMatches(normalizedPath, rules[i])
              THEN [thrown |-> FALSE, index |-> i]
              ELSE later

RECURSIVE FindFrom(_, _, _)
FindFrom(normalizedPath, rules, i) ==
    IF i > Len(rules) THEN [thrown |-> FALSE, index |-> 0]
    ELSE IF rules[i].kind = "null" \/ "files" \notin rules[i].has
         THEN [thrown |-> TRUE, index |-> 0]
    ELSE IF RuleMatches(normalizedPath, rules[i])
         THEN [thrown |-> FALSE, index |-> i]
    ELSE FindFrom(normalizedPath, rules, i + 1)

\* findMatchingRule falling back on the first rule when no rule matches
findMatchingRuleOrFirst(pathname, rules) ==
    LET found == FindFrom(Normalize(pathname), rules, 1) IN
    IF ~found.thrown /\ found.index = 0 /\ rules # <<>>
    THEN [thrown |-> FALSE, index |-> 1]
    ELSE found

findMatchingRule(pathname, rules) == FindFrom(Normalize(pathname), rules, 1)

(***************************************************************************)
(* applyReplaceRule, first half: the replacements object.                  *)
(***************************************************************************)
SetProperty(obj, key, value) ==
    [k \in DOMAIN obj \cup {key} |-> IF k = key THEN value ELSE obj[k]]

\* Object.assign(target, entries)
RECURSIVE ObjectAssign(_, _)
ObjectAssign(target, entries) ==
    IF entries = <<>> THEN target
    ELSE ObjectAssign(SetProperty(target, Head(entries)[1], Head(entries)[2]),
                      Tail(entries))

StaticReplacements(rule) ==
    IF "static" \in rule.has THEN ObjectAssign(<<>>, rule.static) ELSE <<>>

\* for (const [placeholder, jsonPath] of Object.entries(rule.mappings)):
\* jsonPath is the JSON value the configuration gives; path.split throws a
\* TypeError when it is no string
RECURSIVE ApplyMappings(_, _, _)
ApplyMappings(replacements, mappings, apiData) ==
    IF mappings = <<>> THEN [thrown |-> FALSE, obj |-> replacements]
    ELSE IF Head(mappings)[2].t # "str" THEN [thrown |-> TRUE, obj |-> <<>>]
    ELSE LET value == getValueByPath(apiData, Head(mappings)[2].s) IN
         ApplyMappings(
            IF value.t # "undefined"
            THEN SetProperty(replacements, Head(mappings)[1], String(value))
            ELSE replacements,
            Tail(mappings), apiData)

\* rule.api && rule.mappings
UsesApi(rule) == "api" \in rule.has /\ "mappings" \in rule.has

\* the replacements once apiData (null: the JSON null) is known
Replacements(rule, apiData) ==
    IF UsesApi(rule) /\ Truthy(apiData)
    THEN ApplyMappings(StaticReplacements(rule), rule.mappings, apiData)
    ELSE [thrown |-> FALSE, obj |-> StaticReplacements(rule)]

(***************************************************************************)
(* applyReplaceRule, second half: the switch over rule.mode.  In regex     *)
(* mode the try/catch around the replace also catches the throw of the     *)
(* error strategy, and result stays the content.                           *)
(***************************************************************************)
Substitute(content, rule, replacements) ==
    CASE rule.mode = "env" /\ "mode" \in rule.has ->
            ReplaceFrom(content, 1, "env", EnvRegex, replacements, ErrorStrategy(rule))
      [] rule.mode = "template" /\ "mode" \in rule.has ->
            ReplaceFrom(content, 1, "template", TemplateRegex, replacements,
                        ErrorStrategy(rule))
      [] rule.mode = "regex" /\ "mode" \in rule.has ->
            IF "pattern" \in rule.has /\ rule.pattern # ""
            THEN LET regex == RegExpCompile(rule.pattern) IN
                 IF ~regex.ok THEN [thrown |-> FALSE, out |-> content]
                 ELSE LET r == ReplaceFrom(content, 1, "regex", regex.rx, replacements,
                                           ErrorStrategy(rule))
                      IN  IF r.thrown THEN [thrown |-> FALSE, out |-> content] ELSE r
            ELSE [thrown |-> FALSE, out |-> content]
      [] OTHER -> [thrown |-> FALSE, out |-> content]


(***************************************************************************)
(* parseAuthMappings and isAuthorized.  AUTH_PATHS is the raw string, <<>> *)
(* when it is not set; the mappings object is the sequence of its entries  *)
(* in Object.entries order.  secret is the request's secret query          *)
(* parameter, NullSecret when the request carries none.                    *)
(***************************************************************************)
NullSecret == <<"null">>

\* raw.split(/[;,]+/): the pieces between the runs of separators
RECURSIVE splitRuns(_, _)
splitRuns(s, seps) ==
    IF \A j \in 1..Len(s) : s[j] \notin seps THEN <<s>>
    ELSE LET j == CHOOSE j \in 1..Len(s) :
                     s[j] \in seps /\ \A k \in 1..(j - 1) : s[k] \notin seps
             e == IF \A k \in j..Len(s) : s[k] \in seps THEN Len(s)
                  ELSE (CHOOSE k \in j..Len(s) :
                           s[k] \notin seps /\ \A l \in j..(k - 1) : s[l] \in seps) - 1
         IN <<SubSeq(s, 1, j - 1)>> \o splitRuns(SubSeq(s, e + 1, Len(s)), seps)

\* s.replace(/['"\s]+/g, '')
StripQuotes(s) == SelectSeq(s, LAMBDA c : c \notin {"'", "\""} \cup WhiteSpace)

\* s.replace(/\/+$/g, '')
RECURSIVE StripTrailingSlashes(_)
StripTrailingSlashes(p) ==
    IF p # <<>> /\ p[Len(p)] = "/" THEN StripTrailingSlashes(SubSeq(p, 1, Len(p) - 1))
    ELSE p

\* pathname.replace(/^\/+/, '')
RECURSIVE StripLeadingSlashes(_)
StripLeadingSlashes(p) ==
    IF p # <<>> /\ Head(p) = "/" THEN StripLeadingSlashes(Tail(p)) ELSE p

\* mappings[path] = secret: a new key goes last, a known key keeps its place
SetEntry(entries, key, value) ==
    IF \E i \in 1..Len(entries) : entries[i][1] = key
    THEN [i \in 1..Len(entries) |->
            IF entries[i][1] = key THEN <<key, value>> ELSE entries[i]]
    ELSE Append(entries, <<key, value>>)

\* the forEach of parseAuthMappings over the segments from i on
RECURSIVE AuthSegments(_, _, _)
AuthSegments(segments, i, mappings) ==
    IF i > Len(segments) THEN mappings
    ELSE LET parts == split(segments[i], ":")
             rawPath == parts[1]
             path == StripTrailingSlashes(StripLeadingSlashes(StripQuotes(rawPath)))
         IN IF rawPath = <<>> \/ Len(parts) < 2 \/ parts[2] = <<>> \/ path = <<>>
            THEN AuthSegments(segments, i + 1, mappings)
            ELSE AuthSegments(segments, i + 1,
                              SetEntry(mappings, path, StripQuotes(parts[2])))

parseAuthMappings(raw) == AuthSegments(splitRuns(raw, {";", ","}), 1, <<>>)

RECURSIVE AuthFrom(_, _, _, _)
AuthFrom(relativePath, secret, mappings, i) ==
    IF i > Len(mappings) THEN TRUE
    ELSE IF startsWith(relativePath, mappings[i][1]) THEN secret = mappings[i][2]
    ELSE AuthFrom(relativePath, secret, mappings, i + 1)

isAuthorized(pathname, secret, e) ==
    IF e.AUTH_PATHS = <<>> THEN TRUE
    ELSE AuthFrom(StripLeadingSlashes(pathname), secret,
                  parseAuthMappings(e.AUTH_PATHS), 1)

(***************************************************************************)
(* The inputs of the model: request paths, file contents, remote JSON      *)
(* documents and worker environments.                                      *)
(***************************************************************************)
PathA == <<"/", "c", "/", "a", ".", "y">>
PathSub == <<"/", "c", "/", "s", "/", "a", ".", "y">>
PathB == <<"/", "b">>

Paths == {PathA, PathSub, PathB}

NameH == <<"h">>
NameP == <<"p">>
NameU == <<"u">>
NameAtH == <<"@", "h", "@">>
NameValueOf == <<"v", "a", "l", "u", "e", "O", "f">>

EnvPh(name) == <<"$", "{", "e", "n", "v", ":">> \o name \o <<"}">>
TplPh(name) == <<"{", "{">> \o name \o <<"}", "}">>
BrkPh(name) == <<"$", "[">> \o name \o <<"]">>

\* x${env:h}${env:p}
ContentEnv == <<"x">> \o EnvPh(NameH) \o EnvPh(NameP)
\* {{ h }}{{u}}${env:valueOf}${env:u}
ContentTpl ==
    TplPh(<<" ", "h", " ">>) \o TplPh(NameU) \o EnvPh(NameValueOf) \o EnvPh(NameU)
\* @h@-@h@$[h]$[p]
ContentRx == NameAtH \o <<"-">> \o NameAtH \o BrkPh(NameH) \o BrkPh(NameP)
Contents == {ContentEnv, ContentTpl, ContentRx}

HostPath == <<"d", ".", "h", "o", "s", "t">>
PortPath == <<"p", "o", "r", "t">>

\* {"d": {"host": "A"}, "port": 5}
Doc1 == JObj((<<"d">> :> JObj(<<"h", "o", "s", "t">> :> JStr(<<"A">>)))
             @@ (PortPath :> JNum(5)))
\* {"d": {"host": "B"}}
Doc2 == JObj(<<"d">> :> JObj(<<"h", "o", "s", "t">> :> JStr(<<"B">>)))

RemoteDocs == {Doc1, Doc2}

Api1 == << <<"url", "https://api.example.com/config">> >>

ValS == <<"S">>
ValT == <<"T">>
ValZ == <<"Z">>

\* static beside api and mappings; a second rule on the same api, no cache
RulesStatic ==
    << [BlankRule EXCEPT
          !.has = {"files", "mode", "static", "api", "mappings", "cache"},
          !.files = <<PathA>>, !.mode = "env",
          !.static = << <<NameH, ValS>> >>, !.api = Api1,
          !.mappings = << <<NameH, JStr(HostPath)>>, <<NameP, JStr(PortPath)>> >>,
          !.cache = 1],
       [BlankRule EXCEPT
          !.has = {"files", "mode", "api", "mappings", "onError"},
          !.files = << <<"b">> >>, !.mode = "env", !.api = Api1,
          !.mappings = << <<NameP, JStr(PortPath)>> >>, !.onError = "remove"] >>

\* onError = "error" in the three modes
RulesError ==
    << [BlankRule EXCEPT
          !.has = {"files", "mode", "static", "api", "mappings", "onError", "cache"},
          !.files = <<PathA>>, !.mode = "env",
          !.static = << <<NameH, ValS>> >>, !.api = Api1,
          !.mappings = << <<NameP, JStr(PortPath)>> >>, !.onError = "error", !.cache = 0],
       [BlankRule EXCEPT
          !.has = {"files", "mode", "static", "onError"},
          !.files = <<PathSub>>, !.mode = "template",
          !.static = << <<NameH, ValS>> >>, !.onError = "error"],
       [BlankRule EXCEPT
          !.has = {"files", "mode", "pattern", "static", "api", "mappings", "onError"},
          !.files = <<PathB>>, !.mode = "regex", !.pattern = BracketPattern,
          !.static = << <<NameH, ValS>> >>, !.api = Api1,
          !.mappings = << <<NameP, JStr(PortPath)>> >>, !.onError = "error"] >>

\* two rules matching the same paths; the first by suffix
RulesFirst ==
    << [BlankRule EXCEPT
          !.has = {"files", "mode", "static"},
          !.files = << <<"/", "a", ".", "y">> >>, !.mode = "template",
          !.static = << <<NameH, ValT>> >>],
       [BlankRule EXCEPT
          !.has = {"files", "mode", "static", "api", "mappings", "cache"},
          !.files = <<PathA, PathB>>, !.mode = "env",
          !.static = << <<NameH, ValS>> >>, !.api = Api1,
          !.mappings = << <<NameP, JStr(PortPath)>> >>, !.cache = 1] >>

\* regex mode: without and with a capturing group, and a bad pattern
RulesRegex ==
    << [BlankRule EXCEPT
          !.has = {"files", "mode", "pattern", "static"},
          !.files = <<PathA>>, !.mode = "regex", !.pattern = AtPattern,
          !.static = << <<NameAtH, ValZ>> >>],
       [BlankRule EXCEPT
          !.has = {"files", "mode", "pattern", "static", "onError"},
          !.files = <<PathB>>, !.mode = "regex", !.pattern = BracketPattern,
          !.static = << <<NameH, ValS>> >>, !.onError = "remove"],
       [BlankRule EXCEPT
          !.has = {"files", "mode", "pattern", "static"},
          !.files = <<PathSub>>, !.mode = "regex", !.pattern = BadPattern,
          !.static = << <<NameH, ValS>> >>] >>

\* wildcard patterns of the README: /c/*.y, then /c/** and /c/?.y; a third rule
\* whose mapping gives a number where a JSON path is expected
RulesWild ==
    << [BlankRule EXCEPT
          !.has = {"files", "mode", "static"},
          !.files = << <<"/", "c", "/", "*", ".", "y">> >>, !.mode = "env",
          !.static = << <<NameH, ValS>> >>],
       [BlankRule EXCEPT
          !.has = {"files", "mode", "static"},
          !.files = << <<"/", "c", "/", "*", "*">>, <<"/", "c", "/", "?", ".", "y">> >>,
          !.mode = "template", !.static = << <<NameH, ValT>> >>],
       [BlankRule EXCEPT
          !.has = {"files", "mode", "api", "mappings"},
          !.files = <<PathSub>>, !.mode = "env", !.api = Api1,
          !.mappings = << <<NameP, JNum(5)>> >>] >>

GoodRule ==
    [BlankRule EXCEPT
        !.has = {"files", "mode", "static"},
        !.files = <<PathA, PathB>>, !.mode = "env",
        !.static = << <<NameH, ValS>> >>]

\* an element without files, then a well-formed rule
RulesNoFiles ==
    << [BlankRule EXCEPT !.has = {"mode", "static"}, !.mode = "env",
                         !.static = << <<NameH, ValT>> >>],
       GoodRule >>

\* a null element, then a well-formed rule
RulesNull == <<NullElement, GoodRule>>

ReplaceConfigs ==
    {[kind |-> "array", value |-> v] :
        v \in {RulesStatic, RulesError, RulesFirst, RulesRegex, RulesWild,
               RulesNoFiles, RulesNull}}
    \cup {[kind |-> k, value |-> <<GoodRule>>] :
            k \in {"undefined", "empty", "notjson", "nonarray"}}

SecretK == <<"k", "1">>
SecretSub == <<"k", "2">>

\* "c":k1,/c/s/:k2  -  a protected directory and a protected directory in it
AuthRaw ==
    <<"\"", "c", "\"", ":">> \o SecretK \o <<",", "/", "c", "/", "s", "/", ":">>
    \o SecretSub

\* the worker's environments: every REPLACE_CONFIG with a token and no
\* protected directory; one without GH_TOKEN; one with AUTH_PATHS
Envs ==
    {[GH_TOKEN |-> TRUE, AUTH_PATHS |-> <<>>, REPLACE_CONFIG |-> c] :
        c \in ReplaceConfigs}
    \cup {[GH_TOKEN |-> FALSE, AUTH_PATHS |-> <<>>,
           REPLACE_CONFIG |-> [kind |-> "array", value |-> <<GoodRule>>]],
          [GH_TOKEN |-> TRUE, AUTH_PATHS |-> AuthRaw,
           REPLACE_CONFIG |-> [kind |-> "array", value |-> <<GoodRule>>]]}

\* the secrets a request may carry
Secrets(e) ==
    {NullSecret} \cup {parseAuthMappings(e.AUTH_PATHS)[i][2] :
                          i \in 1..Len(parseAuthMappings(e.AUTH_PATHS))}

(***************************************************************************)
(* State.                                                                  *)
(*   env       the worker's environment (fixed for one deployment)         *)
(*   now       Date.now(), in milliseconds                                 *)
(*   apiCache  the Map of cached API responses: key -> [data, expires]     *)
(*   written   history: for each key of apiCache, the time the lookup that *)
(*             wrote the entry read Date.now(), the writing rule's cache   *)
(*             seconds and the JSON its fetch returned                     *)
(*   req       the requests in flight, one per slot                        *)
(***************************************************************************)
VARIABLES env, now, apiCache, written, req

vars == <<env, now, apiCache, written, req>>

Slots == {"r1", "r2"}

MaxTicks == 3

\* the clock advances in half seconds
TickMs == MsPerSecond \div 2

\* pc: idle | origin (awaiting the GitHub fetch) | api (awaiting the remote
\* data fetch) | retry (awaiting the second GitHub fetch) | done.
\* api: none | hit | pending | ok | nonok | throw | notjson.
\* kind: none | response | exception (the handler's promise rejected).
\* origin: what the first GitHub fetch settled with: none | ok | status | reject;
\* content: the body of its ok response.
IdleReq ==
    [pc |-> "idle", path |-> <<>>, secret |-> NullSecret, origin |-> "none",
     content |-> <<>>, rule |-> 0,
     lookupNow |-> 0,
     api |-> "none", apiData |-> JNull, resolved |-> <<>>, kind |-> "none",
     status |-> 0, body |-> <<>>, originFetches |-> 0]

\* lookupNow is the local now of fetchReplacementData: gone once it returned
Respond(rec, status, body) ==
    [rec EXCEPT !.pc = "done", !.kind = "response", !.status = status,
                !.body = body, !.lookupNow = 0]

Reject(rec) == [rec EXCEPT !.pc = "done", !.kind = "exception", !.lookupNow = 0]

\* the messages of the handler's own responses, each kept as one symbol
MsgTokenEmpty == <<"TOKEN must not be empty">>
MsgProcessingFailed == <<"file content processing failed">>
MsgDefaultError == <<"cannot fetch the file">>

Rules(e) == parseReplaceConfig(e.REPLACE_CONFIG)

\* githubResp.status of an ok response
OkStatus == 200

\* applyReplaceRule from the point where apiData is known, and the handler's
\* try/catch around it
FinishReplace(rec, rule, apiData) ==
    LET repl == Replacements(rule, apiData)
        sub == Substitute(rec.content, rule, repl.obj)
        kept == [rec EXCEPT !.apiData = apiData,
                            !.resolved = IF repl.thrown THEN <<>> ELSE repl.obj]
    IN IF ~repl.thrown /\ ~sub.thrown THEN Respond(kept, OkStatus, sub.out)
       ELSE IF "onError" \in rule.has /\ rule.onError = "error"
            THEN Respond(kept, 500, MsgProcessingFailed)
            ELSE [kept EXCEPT !.pc = "retry", !.originFetches = @ + 1,
                              !.lookupNow = 0]

\* the lookup that serves whatever entry the key has, expired or not
BeginReplaceAnyEntry(rec, rule, cache, t) ==
    IF ~UsesApi(rule) \/ ApiUrl(rule) = "" THEN FinishReplace(rec, rule, JNull)
    ELSE IF cacheKey(rule) \in DOMAIN cache
         THEN FinishReplace([rec EXCEPT !.api = "hit", !.lookupNow = t], rule,
                            cache[cacheKey(rule)].data)
         ELSE [rec EXCEPT !.pc = "api", !.api = "pending", !.lookupNow = t]

\* fetchReplacementData up to its await, entered from applyReplaceRule
BeginReplace(rec, rule, cache, t) ==
    IF ~UsesApi(rule) \/ ApiUrl(rule) = "" THEN FinishReplace(rec, rule, JNull)
    ELSE IF cacheKey(rule) \in DOMAIN cache /\ cache[cacheKey(rule)].expires > t
         THEN FinishReplace([rec EXCEPT !.api = "hit", !.lookupNow = t], rule,
                            cache[cacheKey(rule)].data)
         ELSE [rec EXCEPT !.pc = "api", !.api = "pending", !.lookupNow = t]

\* handleGithubFileRequest after the GitHub fetch resolved with an ok response
OriginOk(rec, e, status, content, cache, t) ==
    LET rules == Rules(e)
        found == findMatchingRule(rec.path, rules)
        got == [rec EXCEPT !.origin = "ok", !.content = content]
    IN IF found.thrown THEN Reject(got)
       ELSE IF found.index = 0 THEN Respond(got, status, content)
       ELSE BeginReplace([got EXCEPT !.rule = found.index],
                         rules[found.index], cache, t)

TypeOK ==
    /\ env \in Envs
    /\ now \in {k * TickMs : k \in 0..MaxTicks}
    /\ \A r \in Slots : req[r].pc \in {"idle", "origin", "api", "retry", "done"}

Init ==
    /\ env \in Envs
    /\ now = 0
    /\ apiCache = <<>>
    /\ written = <<>>
    /\ req = [r \in Slots |-> IdleReq]

\* A request arrives: isAuthorized, the token check, the GitHub fetch issued
Start(r) ==
    /\ req[r].pc \in {"idle", "done"}
    /\ \E path \in Paths, secret \in Secrets(env) :
         req' = [req EXCEPT ![r] =
                   LET rec == [IdleReq EXCEPT !.path = path, !.secret = secret] IN
                   IF ~isAuthorized(path, secret, env)
                   THEN Respond(rec, 404, <<>>)
                   ELSE IF ~env.GH_TOKEN
                   THEN Respond(rec, 400, MsgTokenEmpty)
                   ELSE [rec EXCEPT !.pc = "origin", !.originFetches = 1]]
    /\ UNCHANGED <<env, now, apiCache, written>>

\* What a fetch of the GitHub raw URL settles with: an ok response with a
\* body, a failure status, or a network error
OriginOutcomes ==
    {[kind |-> "ok", status |-> OkStatus, body |-> c] : c \in Contents}
    \cup {[kind |-> "status", status |-> st, body |-> <<>>] : st \in {404, 403}}
    \cup {[kind |-> "reject", status |-> 0, body |-> <<>>]}

\* The GitHub fetch settles: the rest of handleGithubFileRequest up to its
\* next await
OriginRespond(r) ==
    /\ req[r].pc = "origin"
    /\ \E o \in OriginOutcomes :
         req' = [req EXCEPT ![r] =
                   CASE o.kind = "ok" ->
                          OriginOk(req[r], env, o.status, o.body, apiCache, now)
                     [] o.kind = "status" ->
                          IF o.status = 404
                          THEN Respond([req[r] EXCEPT !.origin = "status"], 404, <<>>)
                          ELSE Respond([req[r] EXCEPT !.origin = "status"], o.status,
                                       MsgDefaultError)
                     [] OTHER -> Reject([req[r] EXCEPT !.origin = "reject"])]
    /\ UNCHANGED <<env, now, apiCache, written>>

\* What the remote data fetch settles with: a 2xx response with a JSON body,
\* a non-2xx response, a network error, or a 2xx response whose body is no JSON
RemoteOutcomes ==
    {[kind |-> "ok", data |-> d] : d \in RemoteDocs}
    \cup {[kind |-> k, data |-> JNull] : k \in {"nonok", "throw", "notjson"}}

\* the cache write with the expiry counted from the seconds of rule.cache,
\* the conversion to milliseconds left out
CacheAfterSeconds(cache, rule, data, lookupNow) ==
    IF cacheTTL(rule) > 0
    THEN SetProperty(cache, cacheKey(rule),
                     [data |-> data, expires |-> lookupNow + rule.cache])
    ELSE cache

\* the cache write with the expiry counted from the completion of the fetch
CacheAfterCompletion(cache, rule, data, lookupNow) ==
    IF cacheTTL(rule) > 0
    THEN SetProperty(cache, cacheKey(rule),
                     [data |-> data, expires |-> now + cacheTTL(rule)])
    ELSE cache

\* the cache write that puts the new data beside the expiry of the entry
\* already stored for the key
CacheAfterKeepExpiry(cache, rule, data, lookupNow) ==
    IF cacheTTL(rule) > 0
    THEN SetProperty(cache, cacheKey(rule),
                     [data |-> data,
                      expires |-> IF cacheKey(rule) \in DOMAIN cache
                                  THEN cache[cacheKey(rule)].expires
                                  ELSE lookupNow + cacheTTL(rule)])
    ELSE cache

\* apiCache.set(cacheKey, {data, expires: now + cacheTTL}) when cacheTTL > 0
CacheAfter(cache, rule, data, lookupNow) ==
    IF cacheTTL(rule) > 0
    THEN SetProperty(cache, cacheKey(rule),
                     [data |-> data, expires |-> lookupNow + cacheTTL(rule)])
    ELSE cache

\* The remote data fetch settles and response.json() with it: the rest of
\* fetchReplacementData, then the rest of applyReplaceRule and of the handler
ApiRespond(r) ==
    /\ req[r].pc = "api"
    /\ LET rule == Rules(env)[req[r].rule] IN
       \E o \in RemoteOutcomes :
         /\ req' = [req EXCEPT ![r] =
                      FinishReplace([req[r] EXCEPT !.api = o.kind], rule, o.data)]
         /\ apiCache' = IF o.kind = "ok"
                        THEN CacheAfter(apiCache, rule, o.data, req[r].lookupNow)
                        ELSE apiCache
         /\ written' = IF o.kind = "ok" /\ cacheTTL(rule) > 0
                       THEN SetProperty(written, cacheKey(rule),
                                [at |-> req[r].lookupNow, cache |-> rule.cache,
                                 data |-> o.data])
                       ELSE written
    /\ UNCHANGED <<env, now>>

\* The second GitHub fetch of the handler's catch settles; its response is
\* passed through whatever its status
RetryRespond(r) ==
    /\ req[r].pc = "retry"
    /\ \E o \in OriginOutcomes :
         req' = [req EXCEPT ![r] =
                   IF o.kind = "reject" THEN Reject(req[r])
                   ELSE Respond(req[r], o.status, o.body)]
    /\ UNCHANGED <<env, now, apiCache, written>>

\* Time passes
Tick ==
    /\ now < MaxTicks * TickMs
    /\ now' = now + TickMs
    /\ UNCHANGED <<env, apiCache, written, req>>

Next ==
    \/ \E r \in Slots : Start(r)
    \/ \E r \in Slots : OriginRespond(r)
    \/ \E r \in Slots : ApiRespond(r)
    \/ \E r \in Slots : RetryRespond(r)
    \/ Tick

Spec == Init /\ [][Next]_vars

(***************************************************************************)
(* Vocabulary of the properties.                                           *)
(***************************************************************************)
RuleOf(r) == Rules(env)[req[r].rule]

\* every element of the rule list is an object with files
WellFormed(rules) ==
    \A i \in 1..Len(rules) : rules[i].kind = "object" /\ "files" \in rules[i].has

\* applyReplaceRule ran for the request and the handler answered without
\* its second GitHub fetch
Replaced(r) ==
    /\ req[r].pc = "done"
    /\ req[r].rule # 0
    /\ req[r].kind = "response"
    /\ req[r].originFetches = 1

\* the remote data fetch of the request failed
FetchFailed(r) == req[r].api \in {"nonok", "throw", "notjson"}

Keys(entries) == {entries[i][1] : i \in 1..Len(entries)}

ValueOf(entries, key) ==
    entries[CHOOSE i \in 1..Len(entries) :
               entries[i][1] = key /\ \A j \in (i + 1)..Len(entries) : entries[j][1] # key][2]

\* the regular expression a rule's mode scans the content with
HasRegex(rule) ==
    /\ "mode" \in rule.has
    /\ \/ rule.mode \in {"env", "template"}
       \/ rule.mode = "regex" /\ "pattern" \in rule.has /\ RegExpCompile(rule.pattern).ok

RegexOf(rule) ==
    CASE rule.mode = "env" -> EnvRegex
      [] rule.mode = "template" -> TemplateRegex
      [] OTHER -> RegExpCompile(rule.pattern).rx

\* The placeholder name of one occurrence as the specification gives it: the
\* first capturing group (trimmed in template mode), the whole match when the
\* pattern has no group
PlaceholderName(mode, rx, match, cap) ==
    CASE mode = "template" -> trim(cap)
      [] mode = "regex" /\ ~rx.group -> match
      [] OTHER -> cap

\* the names of the placeholder occurrences of content from position i on
RECURSIVE NamesFrom(_, _, _, _)
NamesFrom(content, i, mode, rx) ==
    IF i > Len(content) THEN {}
    ELSE LET m == MatchAt(rx, content, i) IN
         IF m.last = 0 THEN NamesFrom(content, i + 1, mode, rx)
         ELSE {PlaceholderName(mode, rx, SubSeq(content, i, m.last), m.cap)}
              \cup NamesFrom(content, m.last + 1, mode, rx)

OccurrenceNames(content, rule) ==
    IF HasRegex(rule) THEN NamesFrom(content, 1, rule.mode, RegexOf(rule)) ELSE {}

\* The substitution the specification describes: every occurrence whose name
\* has an entry in resolved is replaced by the entry, every other occurrence
\* is kept, removed, or fails the substitution
RECURSIVE ExpectedFrom(_, _, _, _, _, _)
ExpectedFrom(content, i, mode, rx, resolved, strategy) ==
    IF i > Len(content) THEN [failed |-> FALSE, out |-> <<>>]
    ELSE
      LET m == MatchAt(rx, content, i)
          match == SubSeq(content, i, m.last)
          name == PlaceholderName(mode, rx, match, m.cap)
          rest == ExpectedFrom(content, IF m.last = 0 THEN i + 1 ELSE m.last + 1,
                               mode, rx, resolved, strategy)
          piece == IF m.last = 0 THEN <<content[i]>>
                   ELSE IF name \in DOMAIN resolved THEN resolved[name]
                   ELSE IF strategy = "remove" THEN <<>>
                   ELSE match
      IN IF m.last # 0 /\ name \notin DOMAIN resolved /\ strategy = "error"
         THEN [failed |-> TRUE, out |-> <<>>]
         ELSE IF rest.failed THEN rest
         ELSE [failed |-> FALSE, out |-> piece \o rest.out]

Expected(content, rule, resolved) ==
    IF HasRegex(rule)
    THEN ExpectedFrom(content, 1, rule.mode, RegexOf(rule), resolved, ErrorStrategy(rule))
    ELSE [failed |-> FALSE, out |-> content]

(***************************************************************************)
(* C1  static beats api                                                    *)
(***************************************************************************)
\* C1: for a rule with static, api and mappings, every placeholder name that
\* is both in static and in mappings is substituted by its static value,
\* whatever the remote JSON holds.
C1_StaticOverridesApi ==
    \A r \in Slots :
        (Replaced(r) /\ req[r].status = OkStatus /\ UsesApi(RuleOf(r))
            /\ "static" \in RuleOf(r).has)
        => \A name \in Keys(RuleOf(r).static) \cap Keys(RuleOf(r).mappings) :
              req[r].resolved[name] = ValueOf(RuleOf(r).static, name)

(***************************************************************************)
(* C2  onError = "error" aborts with a 500                                 *)
(***************************************************************************)
\* C2: for a rule with onError = "error", in every mode, when the content
\* holds a placeholder occurrence whose name has no entry in the resolved
\* mapping, the request is answered 500: no 200, no rewritten content.
C2_ErrorAnswers500 ==
    \A r \in Slots :
        (Replaced(r) /\ ErrorStrategy(RuleOf(r)) = "error"
            /\ OccurrenceNames(req[r].content, RuleOf(r)) \ DOMAIN req[r].resolved # {})
        => req[r].status = 500 /\ req[r].body = MsgProcessingFailed

(***************************************************************************)
(* C3  first match wins                                                    *)
(***************************************************************************)
\* the indexes of the rules whose files match the path
MatchingRules(path, rules) ==
    {i \in 1..Len(rules) : RuleMatches(Normalize(path), rules[i])}

\* C3: findMatchingRule returns the rule with the smallest index whose files
\* match the path (null when none does); the response is made from that rule
\* alone: its replacements, its substitution, and a remote resolution only
\* when that rule has api and mappings.
C3_FirstMatchWins ==
    \A r \in Slots :
        (req[r].origin = "ok" /\ WellFormed(Rules(env)))
        => LET M == MatchingRules(req[r].path, Rules(env)) IN
           /\ M = {} => req[r].rule = 0
           /\ M # {} => /\ req[r].rule \in M
                        /\ \A j \in M : req[r].rule <= j
           /\ req[r].api # "none" => req[r].rule # 0 /\ UsesApi(RuleOf(r))
           /\ (Replaced(r) /\ req[r].status = OkStatus)
                => /\ req[r].resolved = Replacements(RuleOf(r), req[r].apiData).obj
                   /\ req[r].body =
                        Substitute(req[r].content, RuleOf(r), req[r].resolved).out

\* a request answered from the first of two rules that both match its path
C3_Witness ==
    \E r \in Slots :
        /\ Replaced(r) /\ req[r].status = OkStatus
        /\ WellFormed(Rules(env))
        /\ Cardinality(MatchingRules(req[r].path, Rules(env))) >= 2
        /\ req[r].rule = 1
        /\ req[r].body # req[r].content

(***************************************************************************)
(* C4  cache TTL                                                           *)
(***************************************************************************)
\* slot r does the cache lookup of fetchReplacementData in this step
Lookup(r) == req[r].pc = "origin" /\ req'[r].api \in {"hit", "pending"}

\* C4: when the entry stored for a remote source was written by a fetch whose
\* lookup began at time T under a rule with cache = N > 0, a resolution of
\* that source at a time strictly before T + N returns the cached data and
\* issues no remote fetch, and a resolution at a time after T + N issues a
\* remote fetch.
C4_CacheTTL ==
    [][\A r \in Slots :
          (Lookup(r) /\ cacheKey(Rules(env)[req'[r].rule]) \in DOMAIN written)
          => LET key == cacheKey(Rules(env)[req'[r].rule])
                 T == written[key].at
                 N == written[key].cache * MsPerSecond
             IN /\ N > 0
                /\ now < T + N => /\ req'[r].api = "hit"
                                  /\ req'[r].apiData = apiCache[key].data
                                  /\ req'[r].pc # "api"
                /\ now > T + N => req'[r].api = "pending" /\ req'[r].pc = "api"
      ]_vars

\* one request was served from the cache after time had passed since the
\* fetch that filled it, another found the entry expired and awaits its fetch
C4_Witness ==
    \E r, q \in Slots :
        /\ req[r].api = "hit" /\ req[r].pc = "done" /\ req[r].rule # 0
        /\ cacheKey(RuleOf(r)) \in DOMAIN written
        /\ req[q].pc = "api"
        /\ cacheKey(RuleOf(q)) = cacheKey(RuleOf(r))
        /\ req[q].lookupNow > written[cacheKey(RuleOf(r))].at
                                + written[cacheKey(RuleOf(r))].cache * MsPerSecond

(***************************************************************************)
(* C5  cache = 0 or unset                                                  *)
(***************************************************************************)
\* C5: a rule whose cache is 0 or unset is never served from the cache (each
\* of its resolutions issues a remote fetch) and never stores an entry.
C5_NoCacheAlwaysFetches ==
    /\ \A r \in Slots :
          (req[r].rule # 0 /\ UsesApi(RuleOf(r)) /\ ApiUrl(RuleOf(r)) # ""
              /\ cacheTTL(RuleOf(r)) = 0 /\ req[r].pc \in {"api", "done"})
          => req[r].api \in {"pending", "ok", "nonok", "throw", "notjson"}
    /\ \A key \in DOMAIN written : written[key].cache > 0

(***************************************************************************)
(* C6  REPLACE_CONFIG absent, empty, not JSON, not an array                *)
(***************************************************************************)
\* C6: when REPLACE_CONFIG is absent, empty, not JSON or JSON of a value that
\* is no array, the rule list is empty and every request whose GitHub fetch
\* is ok is answered with GitHub's status and body, with no remote data
\* fetch and nothing cached.
C6_BadConfigPassesThrough ==
    env.REPLACE_CONFIG.kind # "array"
    => /\ Rules(env) = <<>>
       /\ apiCache = <<>>
       /\ \A r \in Slots :
             req[r].origin = "ok"
             => /\ req[r].pc = "done" /\ req[r].kind = "response"
                /\ req[r].status = OkStatus
                /\ req[r].body = req[r].content
                /\ req[r].rule = 0 /\ req[r].api = "none"
                /\ req[r].originFetches = 1

\* REPLACE_CONFIG is the JSON of an object that holds a rule for the path, and
\* a file with placeholders was requested on that path and passed through
C6_Witness ==
    /\ env.REPLACE_CONFIG.kind = "nonarray"
    /\ \E r \in Slots :
          /\ req[r].origin = "ok" /\ req[r].path = PathA
          /\ req[r].content = ContentEnv /\ req[r].pc = "done"
          /\ req[r].body = ContentEnv

(***************************************************************************)
(* C7  permissive rule shape                                               *)
(***************************************************************************)
\* the indexes of the elements that are objects with files matching the path
TolerantMatches(path, rules) ==
    {i \in 1..Len(rules) :
        /\ rules[i].kind = "object" /\ "files" \in rules[i].has
        /\ RuleMatches(Normalize(path), rules[i])}

\* C7: when REPLACE_CONFIG is a JSON array, an element without files (or a
\* null element) matches no path and matching goes on with the next rules:
\* the request is answered, by pass-through or by the first later rule that
\* matches.
C7_MalformedElementSkipped ==
    env.REPLACE_CONFIG.kind = "array"
    => \A r \in Slots :
          (req[r].origin = "ok" /\ req[r].pc = "done" /\ req[r].originFetches = 1)
          => LET M == TolerantMatches(req[r].path, Rules(env)) IN
             /\ req[r].kind = "response"
             /\ M = {} => req[r].rule = 0
             /\ M # {} => req[r].rule \in M /\ \A j \in M : req[r].rule <= j

(***************************************************************************)
(* C8  remote fetch failure                                                *)
(***************************************************************************)
\* C8: when the remote fetch of a matched rule with api and mappings throws,
\* answers non-2xx or answers a body that is no JSON, no exception escapes:
\* the resolved mapping is exactly the static values, the substitution runs,
\* and the placeholders are handled by the rule's onError policy (keep and
\* remove answer 200, error answers 500 when a placeholder is unresolved).
\* Contents with a name inherited from Object.prototype are left to the
\* claims about the policies themselves.
C8_FetchFailureAbsorbed ==
    \A r \in Slots :
        (req[r].pc = "done" /\ req[r].rule # 0 /\ FetchFailed(r))
        => LET exp == Expected(req[r].content, RuleOf(r), req[r].resolved) IN
           /\ req[r].kind = "response" /\ req[r].originFetches = 1
           /\ req[r].resolved = StaticReplacements(RuleOf(r))
           /\ ErrorStrategy(RuleOf(r)) \in {"keep", "remove"}
                => req[r].status = OkStatus
           /\ OccurrenceNames(req[r].content, RuleOf(r)) \cap ObjectPrototypeKeys = {}
                => IF exp.failed THEN req[r].status = 500
                   ELSE req[r].status = OkStatus /\ req[r].body = exp.out

(***************************************************************************)
(* C9  wildcards in files                                                  *)
(***************************************************************************)
\* The pattern language of the README: ? is one character other than /,
\* * is any run of characters other than /, ** is any run of characters
RECURSIVE GlobMatch(_, _)
GlobMatch(pattern, path) ==
    IF pattern = <<>> THEN path = <<>>
    ELSE IF StartsWithAt(pattern, 1, <<"*", "*">>)
         THEN \E k \in 0..Len(path) :
                 GlobMatch(SubSeq(pattern, 3, Len(pattern)),
                           SubSeq(path, k + 1, Len(path)))
    ELSE IF Head(pattern) = "*"
         THEN \E k \in 0..Len(path) :
                 /\ \A j \in 1..k : path[j] # "/"
                 /\ GlobMatch(Tail(pattern), SubSeq(path, k + 1, Len(path)))
    ELSE IF Head(pattern) = "?"
         THEN path # <<>> /\ Head(path) # "/" /\ GlobMatch(Tail(pattern), Tail(path))
    ELSE path # <<>> /\ Head(path) = Head(pattern)
         /\ GlobMatch(Tail(pattern), Tail(path))

\* the indexes of the rules one of whose files matches the path as a
\* wildcard pattern, or is a suffix of it
GlobMatchingRules(path, rules) ==
    {i \in 1..Len(rules) :
        \E k \in 1..Len(rules[i].files) :
            \/ GlobMatch(Normalize(rules[i].files[k]), Normalize(path))
            \/ endsWith(Normalize(path), Normalize(rules[i].files[k]))}

\* C9: the path matcher honours ?, * and ** in files: the rule chosen for a
\* request is the first rule one of whose patterns matches the path
\* (/c/*.y matches /c/a.y and does not match /c/s/a.y).
C9_WildcardsHonoured ==
    \A r \in Slots :
        (req[r].origin = "ok" /\ WellFormed(Rules(env)))
        => LET G == GlobMatchingRules(req[r].path, Rules(env)) IN
           /\ G = {} => req[r].rule = 0
           /\ G # {} => req[r].rule \in G /\ \A j \in G : req[r].rule <= j

(***************************************************************************)
(* C10  the placeholder name in regex mode                                 *)
(***************************************************************************)
\* C10: in regex mode every match, at any position, is looked up by the
\* first capturing group when the pattern has one and by the whole matched
\* text otherwise; so the body is the substitution made with those names.
C10_RegexLookupName ==
    \A r \in Slots :
        (Replaced(r) /\ req[r].status = OkStatus /\ "mode" \in RuleOf(r).has
            /\ RuleOf(r).mode = "regex" /\ HasRegex(RuleOf(r))
            /\ ErrorStrategy(RuleOf(r)) # "error")
        => req[r].body = Expected(req[r].content, RuleOf(r), req[r].resolved).out

(***************************************************************************)
(* C11  onError = "keep"                                                   *)
(***************************************************************************)
\* the modes whose replace callbacks are lines 325-354
PlainModes == {"env", "template"}

\* C11: for a rule with onError = "keep" (or unset), in env and template
\* mode, every occurrence of a placeholder whose name has no entry in the
\* resolved mapping stands unchanged in the output and every occurrence
\* with an entry is replaced by it: the body is the reference substitution.
C11_KeepRoundTrips ==
    \A r \in Slots :
        (Replaced(r) /\ req[r].status = OkStatus /\ "mode" \in RuleOf(r).has
            /\ RuleOf(r).mode \in PlainModes
            /\ ErrorStrategy(RuleOf(r)) = "keep")
        => req[r].body = Expected(req[r].content, RuleOf(r), req[r].resolved).out

(***************************************************************************)
(* C12  onError = "remove"                                                 *)
(***************************************************************************)
\* the content with every placeholder occurrence taken out, from position i
RECURSIVE OutsideFrom(_, _, _)
OutsideFrom(content, i, rx) ==
    IF i > Len(content) THEN <<>>
    ELSE LET m == MatchAt(rx, content, i) IN
         IF m.last = 0 THEN <<content[i]>> \o OutsideFrom(content, i + 1, rx)
         ELSE OutsideFrom(content, m.last + 1, rx)

\* C12: for a rule with onError = "remove", in env and template mode, when
\* no placeholder name of the content has an entry in the resolved mapping
\* the output is the content with every placeholder occurrence replaced by
\* the empty string, the text outside the occurrences unchanged.
C12_RemoveDeletes ==
    \A r \in Slots :
        (Replaced(r) /\ req[r].status = OkStatus /\ "mode" \in RuleOf(r).has
            /\ RuleOf(r).mode \in PlainModes
            /\ ErrorStrategy(RuleOf(r)) = "remove"
            /\ OccurrenceNames(req[r].content, RuleOf(r)) \cap DOMAIN req[r].resolved = {})
        => req[r].body = OutsideFrom(req[r].content, 1, RegexOf(RuleOf(r)))

(***************************************************************************)
(* C13  protected directories                                              *)
(***************************************************************************)
\* the path lies in the directory
InDirectory(relativePath, dir) ==
    relativePath = dir \/ startsWith(relativePath, dir \o <<"/">>)

\* the protected directories the request path begins with
ProtectingDirs(path, e) ==
    {dir \in Keys(parseAuthMappings(e.AUTH_PATHS)) :
        InDirectory(StripLeadingSlashes(path), dir)}

\* the innermost of them
InnermostDir(path, e) ==
    CHOOSE dir \in ProtectingDirs(path, e) :
        \A other \in ProtectingDirs(path, e) : Len(other) <= Len(dir)

\* C13: a request whose path begins with a protected directory and whose
\* secret parameter is not the secret configured for that directory (the
\* innermost one when protected directories are nested) is answered 404,
\* with no GitHub fetch, no remote data fetch and no cache change.
C13_WrongSecretIs404 ==
    \A r \in Slots :
        (req[r].pc # "idle" /\ ProtectingDirs(req[r].path, env) # {}
            /\ req[r].secret # ValueOf(parseAuthMappings(env.AUTH_PATHS),
                                       InnermostDir(req[r].path, env)))
        => /\ req[r].pc = "done" /\ req[r].kind = "response"
           /\ req[r].status = 404 /\ req[r].body = <<>>
           /\ req[r].originFetches = 0 /\ req[r].api = "none"
           /\ apiCache = <<>>

(***************************************************************************)
(* C14  a remote data fetch that never completes                           *)
(***************************************************************************)
\* The worker with its scheduling: a GitHub fetch settles and the handler
\* runs on from it.  The remote data fetch is awaited with no timeout and
\* no abort signal (lines 264-267), so nothing obliges its await to end.
\* Fairness is stated on one outcome of each GitHub fetch: that step is
\* enabled exactly while the fetch is awaited and every step of
\* OriginRespond (RetryRespond) ends the await, so weak fairness of it says
\* what weak fairness of the whole action says: the await ends.
OriginSettles(r) ==
    /\ req[r].pc = "origin"
    /\ req' = [req EXCEPT ![r] = Reject([req[r] EXCEPT !.origin = "reject"])]
    /\ UNCHANGED <<env, now, apiCache, written>>

RetrySettles(r) ==
    /\ req[r].pc = "retry"
    /\ req' = [req EXCEPT ![r] = Reject(req[r])]
    /\ UNCHANGED <<env, now, apiCache, written>>

LiveSpec ==
    Spec /\ \A r \in Slots : WF_vars(OriginSettles(r)) /\ WF_vars(RetrySettles(r))

\* C14: a request that awaits the remote data fetch of its rule is
\* eventually answered, also when that fetch never completes.
C14_RemoteFetchTimesOut ==
    \A r \in Slots :
        (req[r].pc = "api") ~> (req[r].pc = "done" /\ req[r].kind = "response")

(***************************************************************************)
(* C15  the shared cache under concurrent requests                         *)
(***************************************************************************)
\* the entry one successful fetch writes: its data beside its own expiry
EntryOf(w) == [data |-> w.data, expires |-> w.at + w.cache * MsPerSecond]

\* slot r leaves the await of its remote data fetch in this step
FetchReturns(r) == req[r].pc = "api" /\ req'[r].pc # "api"

\* C15: under every interleaving, after every step each cache entry is the
\* data and the expiry written together by the one successful fetch that
\* stored it last; a request served from the cache takes the data of an
\* entry that is live at its lookup, every other request takes the result
\* of its own fetch (absence when it failed), and the substituted values
\* are made from that data.
C15_CacheNeverCorrupted ==
    [][/\ DOMAIN apiCache' = DOMAIN written'
       /\ \A key \in DOMAIN apiCache' : apiCache'[key] = EntryOf(written'[key])
       /\ \A r \in Slots :
             /\ (Lookup(r) /\ req'[r].api = "hit")
                  => LET key == cacheKey(Rules(env)[req'[r].rule]) IN
                     /\ key \in DOMAIN apiCache
                     /\ apiCache[key].expires > now
                     /\ req'[r].apiData = apiCache[key].data
             /\ FetchReturns(r)
                  => /\ req'[r].api = "ok" => req'[r].apiData \in RemoteDocs
                     /\ req'[r].api # "ok" => req'[r].apiData = JNull
                     /\ (req'[r].api = "ok" /\ cacheTTL(RuleOf(r)) > 0)
                          => apiCache'[cacheKey(RuleOf(r))].data = req'[r].apiData
             /\ ((Lookup(r) \/ FetchReturns(r)) /\ req'[r].pc = "done"
                    /\ req'[r].status = OkStatus)
                  => req'[r].resolved =
                        Replacements(Rules(env)[req'[r].rule], req'[r].apiData).obj
      ]_vars

\* two requests await their own fetch for the same key at the same time,
\* while an entry of an earlier fetch for that key is in the cache
C15_Witness ==
    \E r, q \in Slots :
        /\ r # q /\ req[r].pc = "api" /\ req[q].pc = "api"
        /\ cacheKey(RuleOf(r)) = cacheKey(RuleOf(q))
        /\ cacheKey(RuleOf(r)) \in DOMAIN apiCache
        /\ req[r].lookupNow # req[q].lookupNow

(***************************************************************************)
(* C16  no rule matches                                                    *)
(***************************************************************************)
\* C16: when the GitHub fetch is ok and no rule's files match the request
\* path, the response is GitHub's status and body unchanged, no remote data
\* fetch is issued and the cache is left as it was.
C16_NoMatchPassesThrough ==
    [][\A r \in Slots :
          (req[r].pc = "origin" /\ req'[r].origin = "ok"
              /\ WellFormed(Rules(env))
              /\ MatchingRules(req[r].path, Rules(env)) = {})
          => /\ req'[r].pc = "done" /\ req'[r].kind = "response"
             /\ req'[r].status = OkStatus
             /\ req'[r].body = req'[r].content
             /\ req'[r].rule = 0 /\ req'[r].api = "none"
             /\ req'[r].originFetches = 1
             /\ apiCache' = apiCache
      ]_vars

\* a file with placeholders was passed through on a path no rule names,
\* under a rule list that rewrites other paths and has filled the cache
C16_Witness ==
    \E r \in Slots :
        /\ req[r].pc = "done" /\ req[r].origin = "ok" /\ req[r].rule = 0
        /\ env.REPLACE_CONFIG.kind = "array" /\ WellFormed(Rules(env))
        /\ MatchingRules(req[r].path, Rules(env)) = {}
        /\ req[r].content = ContentEnv /\ req[r].body = ContentEnv
        /\ apiCache # <<>>

(***************************************************************************)
(* C17  a failed remote fetch and the cache                                *)
(***************************************************************************)
\* C17: when the remote fetch answers non-2xx, throws or answers no JSON,
\* fetchReplacementData returns absence and the cache map is unchanged for
\* every key, whatever rule.cache is; and a lookup that finds an expired
\* entry does not serve it: it issues a fetch.
C17_FailureLeavesCache ==
    [][\A r \in Slots :
          /\ (FetchReturns(r) /\ FetchFailed(r)')
               => req'[r].apiData = JNull /\ apiCache' = apiCache
          /\ (Lookup(r) /\ cacheKey(Rules(env)[req'[r].rule]) \in DOMAIN apiCache
                 /\ apiCache[cacheKey(Rules(env)[req'[r].rule])].expires <= now)
               => req'[r].api = "pending" /\ req'[r].pc = "api"
      ]_vars

\* a fetch failed for a key whose entry in the cache has expired
C17_Witness ==
    \E r \in Slots :
        /\ req[r].pc = "done" /\ req[r].rule # 0 /\ FetchFailed(r)
        /\ cacheTTL(RuleOf(r)) > 0
        /\ cacheKey(RuleOf(r)) \in DOMAIN apiCache
        /\ apiCache[cacheKey(RuleOf(r))].expires <= now

(***************************************************************************)
(* C18  freshness                                                          *)
(***************************************************************************)
\* C18: the expiry of every cache entry is the time at which the lookup that
\* wrote it began (read before the fetch was issued) plus the writing rule's
\* cache seconds; so an entry is live for at most that time after it is
\* stored, and data served from the cache was requested from the remote
\* source less than that time before.
C18_FreshnessBound ==
    [][/\ \A key \in DOMAIN apiCache' :
             /\ key \in DOMAIN written'
             /\ apiCache'[key].expires =
                    written'[key].at + written'[key].cache * MsPerSecond
       /\ \A r \in Slots :
             /\ (FetchReturns(r) /\ req'[r].api = "ok" /\ cacheTTL(RuleOf(r)) > 0)
                  => LET entry == apiCache'[cacheKey(RuleOf(r))] IN
                     /\ entry.expires = req[r].lookupNow + RuleOf(r).cache * MsPerSecond
                     /\ entry.expires <= now + RuleOf(r).cache * MsPerSecond
             /\ (Lookup(r) /\ req'[r].api = "hit")
                  => LET w == written[cacheKey(Rules(env)[req'[r].rule])] IN
                     /\ w.at <= now
                     /\ now - w.at < w.cache * MsPerSecond
      ]_vars

\* a request was served from the cache some time after the lookup that
\* wrote the entry, the entry still being live
C18_Witness ==
    \E r \in Slots :
        /\ req[r].pc = "done" /\ req[r].api = "hit" /\ req[r].status = OkStatus
        /\ cacheKey(RuleOf(r)) \in DOMAIN written
        /\ written[cacheKey(RuleOf(r))].at < now
        /\ now < apiCache[cacheKey(RuleOf(r))].expires

====
